---- MODULE Spec2Model ----
(***************************************************************************)
(* Model of the two ResNet "training to serving" notebooks:                *)
(*   - the Estimator notebook: preprocess_image, resnet_model_fn,          *)
(*     create_servable_estimator_spec, serving_input_receiver_fn and       *)
(*     estimator.export_savedmodel;                                        *)
(*   - the Keras notebook: preprocess_image, SavedModelBuilder(SERVING_DIR)*)
(*     and the 'predict' signature.                                        *)
(*                                                                         *)
(* A request is executed the way the exported graph executes it: the       *)
(* iterations of tf.map_fn (in any order), the TensorArray stack, the      *)
(* reshape, one call of the network, then top_k and softmax.               *)
(*                                                                         *)
(* Numbers.  A float is kept exactly, as a rational:                       *)
(*   - a normalized pixel  v/255.0 - 0.5  is the integer 2v - 255, in      *)
(*     units of 1/510;                                                     *)
(*   - logits are integers, in units of ln 2, so that exp(logit) is a      *)
(*     power of two and a probability is a pair <<numerator, denominator>>.*)
(* An image is of one colour: every pixel channel holds the same 8-bit     *)
(* value.  imagenet_resnet_v2 is not code of the notebooks; it is          *)
(* represented by a small family of score functions (Checkpoints).         *)
(***************************************************************************)
EXTENDS Integers, Sequences, FiniteSets, TLC

\* ------------------------------------------------------------- constants

_DEFAULT_IMAGE_SIZE == 224
_NUM_CHANNELS == 3
_LABEL_CLASSES == 1001
TOP_K == 5

VERSION_NUMBER == 1

\* The largest batch a client sends.
MaxBatch == 2

\* The largest version number the Keras notebook is run with, and the last
\* second of the clock.
MaxVersion == 2
MaxTime == 2

\* ------------------------------------------------------------- helpers

Max(S) == CHOOSE m \in S : \A x \in S : x <= m
Min(S) == CHOOSE m \in S : \A x \in S : m <= x
Abs(x) == IF x < 0 THEN -x ELSE x

RECURSIVE Pow2(_)
Pow2(n) == IF n <= 0 THEN 1 ELSE 2 * Pow2(n - 1)

RECURSIVE SumSeq(_)
SumSeq(s) == IF s = <<>> THEN 0 ELSE Head(s) + SumSeq(Tail(s))

Range(s) == {s[i] : i \in DOMAIN s}

\* ------------------------------------------------------------- requests

\* A jpeg-formatted byte stream, by what decoding it yields: whether it is a
\* JPEG stream at all, its size, its channels and its (single) colour.
JpegImage(h, w, ch, v) ==
    [jpeg |-> TRUE, height |-> h, width |-> w, channels |-> ch, value |-> v]

NotJpeg == [jpeg |-> FALSE, height |-> 0, width |-> 0, channels |-> 0, value |-> 0]

\* The byte strings a client may put in a request: two images of the size the
\* client is meant to send, a grayscale one, one twice as tall, a small one,
\* and bytes that are no JPEG stream.
RawImages ==
    { JpegImage(_DEFAULT_IMAGE_SIZE, _DEFAULT_IMAGE_SIZE, _NUM_CHANNELS, 0),
      JpegImage(_DEFAULT_IMAGE_SIZE, _DEFAULT_IMAGE_SIZE, _NUM_CHANNELS, 1),
      JpegImage(_DEFAULT_IMAGE_SIZE, _DEFAULT_IMAGE_SIZE, 1, 128),
      JpegImage(2 * _DEFAULT_IMAGE_SIZE, _DEFAULT_IMAGE_SIZE, _NUM_CHANNELS, 2),
      JpegImage(100, 100, _NUM_CHANNELS, 3),
      NotJpeg }

\* features['images']: a tensor of strings of any length.
Requests == UNION {[1..n -> RawImages] : n \in 0..MaxBatch}

\* ------------------------------------------------------------- tensors

\* A decoded or normalized image is [status, shape, value]: its shape and the
\* value of its elements.

\* An op that raised: the session run of the request ends with this status.
Raised(kind) == [status |-> kind, shape |-> <<>>, value |-> 0]

\* tf.image.decode_jpeg(encoded_image, channels=3): bytes that are no JPEG
\* stream raise; a stream of any size decodes to height x width x 3, a
\* grayscale one with its value copied to the three channels.
decode_jpeg(encoded_image) ==
    IF ~encoded_image.jpeg
      THEN Raised("DecodeError")
      ELSE [status |-> "OK",
            shape |-> <<encoded_image.height, encoded_image.width, 3>>,
            value |-> encoded_image.value]

\* tf.to_float(image) / 255.0 - 0.5, in units of 1/510.
Normalize(v) == 2 * v - 255

\* preprocess_image: decode, then normalize; height and width are not used.
preprocess_image(encoded_image) ==
    LET image == decode_jpeg(encoded_image)
    IN  IF image.status # "OK"
          THEN image
          ELSE [image EXCEPT !.value = Normalize(image.value)]

\* keras.applications.resnet50.preprocess_input on a float tensor with the
\* channels last: the channels are reversed, RGB to BGR, and the ImageNet mean
\* of each channel is subtracted; nothing is rescaled. The means, B, G, R, and
\* the result are in units of 1/1000.
ImageNetMean == <<103939, 116779, 123680>>

preprocess_input(rgb) == [c \in 1..3 |-> 1000 * rgb[4 - c] - ImageNetMean[c]]

\* preprocess_image of the Keras notebook: decode, to_float, preprocess_input.
\* The value of the result is the B, G, R of its pixels.
keras_preprocess_image(encoded_image) ==
    LET image == decode_jpeg(encoded_image)
    IN  IF image.status # "OK"
          THEN image
          ELSE [image EXCEPT
                  !.value = preprocess_input(<<image.value, image.value, image.value>>)]

\* Number of elements of a tensor of the given shape.
RECURSIVE NumElements(_)
NumElements(shape) ==
    IF shape = <<>> THEN 1 ELSE Head(shape) * NumElements(Tail(shape))

\* A TensorArray whose slots all refer to one buffer, which every iteration
\* overwrites.
TensorArrayWrite_shared_buffer(ta, i, t) ==
    [j \in (DOMAIN ta) \cup {i} |-> t]

\* A TensorArray that files the results in their order of completion.
TensorArrayWrite_completion_order(ta, i, t) == Append(ta, t)

\* The TensorArray of tf.map_fn: iteration i writes its result at index i.
TensorArrayWrite(ta, i, t) ==
    [j \in (DOMAIN ta) \cup {i} |-> IF j = i THEN t ELSE ta[j]]

\* TensorArray.stack() at the end of tf.map_fn, over n elements. The element
\* shape of preprocess_image's result is [?, ?, 3], not fully defined: packing
\* a TensorArray of size zero raises; so do elements of different shapes.
\* Otherwise the result is the tensor [n, height, width, 3].
TensorArrayStack(ta, n) ==
    IF n = 0
      THEN [status |-> "UnimplementedError", shape |-> <<>>, values |-> <<>>]
    ELSE IF \E i \in 1..n : ta[i].shape # ta[1].shape
      THEN [status |-> "DecodeError", shape |-> <<>>, values |-> <<>>]
    ELSE [status |-> "OK",
          shape |-> <<n>> \o ta[1].shape,
          values |-> [i \in 1..n |-> ta[i].value]]

\* tf.stack of one tensor is that tensor; tf.reshape to
\* [-1, _DEFAULT_IMAGE_SIZE, _DEFAULT_IMAGE_SIZE, 3] succeeds exactly when the
\* number of elements is a multiple of one image's, and then cuts the
\* row-major data into that many images, whatever the input's shape was.
Reshape(tensor) ==
    LET one   == NumElements(<<_DEFAULT_IMAGE_SIZE, _DEFAULT_IMAGE_SIZE, 3>>)
        each  == NumElements(Tail(tensor.shape))
        total == NumElements(tensor.shape)
    IN  IF total % one # 0
          THEN [status |-> "DecodeError", shape |-> <<>>, values |-> <<>>]
          ELSE [status |-> "OK",
                shape |-> <<total \div one, _DEFAULT_IMAGE_SIZE, _DEFAULT_IMAGE_SIZE, 3>>,
                values |-> [r \in 1..(total \div one) |->
                              tensor.values[((r - 1) * one) \div each + 1]]]

\* ------------------------------------------------------------- the network

Classes == 0..(_LABEL_CLASSES - 1)

\* The checkpoints that may be loaded from MODEL_DIR. A checkpoint scores
\* class c by its distance to a centre class that the image decides.
Checkpoints ==
    { [gain |-> 1,   slope |-> 1, peak |-> 6],
      [gain |-> 500, slope |-> 7, peak |-> 6] }

Logit(w, x, c) ==
    LET centre == (w.gain * x) % _LABEL_CLASSES
        score  == w.peak - w.slope * Abs(c - centre)
    IN  IF score < 0 THEN 0 ELSE score

\* is_training=(mode == tf.estimator.ModeKeys.TRAIN)
is_training(mode) == mode = "TRAIN"

\* network(inputs=processed_images, is_training=...): one row of
\* _LABEL_CLASSES scores per image. When training, batch normalization uses
\* the statistics of the batch, so a row depends on the whole batch; when
\* not, it uses the checkpoint's moving averages and a row depends on its
\* image alone.
network(w, inputs, training) ==
    LET n     == Len(inputs)
        batch == IF training THEN SumSeq([r \in 1..n |-> inputs[r] + 255]) ELSE 0
    IN  [r \in 1..n |-> [c \in Classes |-> Logit(w, inputs[r] + 255 + batch, c)]]

\* ------------------------------------------------------------- predictions

\* A top_k that, of two equal entries, puts the one of higher index first.
RECURSIVE TopKIndices_higher_index_first(_, _, _)
TopKIndices_higher_index_first(row, k, taken) ==
    IF k = 0 THEN <<>>
    ELSE LET cand == (DOMAIN row) \ taken
             m    == Max({row[c] : c \in cand})
             best == Max({c \in cand : row[c] = m})
         IN  <<best>> \o TopKIndices_higher_index_first(row, k - 1, taken \cup {best})

\* A top_k that does not set aside the entries it has already returned.
RECURSIVE TopKIndices_repeating(_, _, _)
TopKIndices_repeating(row, k, taken) ==
    IF k = 0 THEN <<>>
    ELSE LET cand == DOMAIN row
             m    == Max({row[c] : c \in cand})
             best == Min({c \in cand : row[c] = m})
         IN  <<best>> \o TopKIndices_repeating(row, k - 1, taken \cup {best})

\* tf.nn.top_k on one row: the indices of the k largest entries, largest
\* first; of two equal entries the one of lower index comes first.
RECURSIVE TopKIndices(_, _, _)
TopKIndices(row, k, taken) ==
    IF k = 0 THEN <<>>
    ELSE LET cand == (DOMAIN row) \ taken
             m    == Max({row[c] : c \in cand})
             best == Min({c \in cand : row[c] = m})
         IN  <<best>> \o TopKIndices(row, k - 1, taken \cup {best})

RECURSIVE TopKRows(_, _)
TopKRows(matrix, k) ==
    IF matrix = <<>> THEN <<>>
    ELSE <<TopKIndices(Head(matrix), k, {})>> \o TopKRows(Tail(matrix), k)

\* top_k_logits, top_k_classes = tf.nn.top_k(logits, k=TOP_K)
top_k(matrix, k) ==
    LET indices == TopKRows(matrix, k)
    IN  [values  |-> [r \in DOMAIN matrix |-> [j \in 1..k |-> matrix[r][indices[r][j]]]],
         indices |-> indices]

\* tf.nn.softmax over the last dimension: exp(x_j) / sum of exp(x_i), the
\* numerators scaled so that the smallest is 1.
SoftmaxRow(values) ==
    LET lo  == Min(Range(values))
        e   == [j \in DOMAIN values |-> Pow2(values[j] - lo)]
        den == SumSeq(e)
    IN  [j \in DOMAIN values |-> <<e[j], den>>]

softmax(matrix) == [r \in DOMAIN matrix |-> SoftmaxRow(matrix[r])]

\* The sum of exp(x - lo) over a whole row, level by level.
RECURSIVE WeightOfLevels(_, _, _)
WeightOfLevels(row, levels, lo) ==
    IF levels = {} THEN 0
    ELSE LET v == Max(levels)
         IN  Pow2(v - lo) * Cardinality({c \in DOMAIN row : row[c] = v})
               + WeightOfLevels(row, levels \ {v}, lo)

\* Predictions with the softmax taken over the whole row of _LABEL_CLASSES
\* scores, and the top k taken of the result.
predictions_softmax_first(matrix) ==
    LET top == top_k(matrix, TOP_K)
        lo(r)  == Min(Range(matrix[r]))
        den(r) == WeightOfLevels(matrix[r], Range(matrix[r]), lo(r))
    IN  [classes |-> top.indices,
         probabilities |-> [r \in DOMAIN matrix |->
             [j \in 1..TOP_K |-> <<Pow2(top.values[r][j] - lo(r)), den(r)>>]]]

\* Predictions whose probabilities are listed in increasing order, against
\* the order of the classes.
predictions_misaligned(matrix) ==
    LET top         == top_k(matrix, TOP_K)
        top_k_probs == softmax(top.values)
    IN  [classes |-> top.indices,
         probabilities |-> [r \in DOMAIN matrix |->
             [j \in 1..TOP_K |-> top_k_probs[r][TOP_K + 1 - j]]]]

\* The predictions dictionary of resnet_model_fn.
predictions(matrix) ==
    LET top         == top_k(matrix, TOP_K)
        top_k_probs == softmax(top.values)
    IN  [classes |-> top.indices, probabilities |-> top_k_probs]

\* ------------------------------------------------------------- state

VARIABLES
    weights,            \* the checkpoint loaded from MODEL_DIR
    pc,                 \* where the run of the current request stands
    images,             \* features['images'] of the current request
    iters,              \* the iterations of tf.map_fn that have run
    ta,                 \* the TensorArray tf.map_fn writes into
    processed_images,   \* the 4D tensor given to the network
    logits,             \* the network's score matrix
    invocations,        \* calls of the network during the current request
    response,           \* what the current request returned
    prev                \* the client's previous call: its images and response

serving == <<weights, pc, images, iters, ta, processed_images, logits,
             invocations, response, prev>>

VARIABLES
    now,        \* the clock, in seconds: int(time.time())
    fs,         \* the servable directories on disk: path -> contents
    builder,    \* the Keras notebook's SavedModelBuilder
    exports,    \* how many bundles have been written
    attempt     \* the export the last step started, if it started one

exporting == <<now, fs, builder, exports, attempt>>

VARIABLES
    encoded_image,  \* a byte string handed to a preprocess_image helper
    normalized      \* what the helper returned, and which notebook's it was

preprocessing == <<encoded_image, normalized>>

NoTensor == [status |-> "none", shape |-> <<>>, values |-> <<>>]
NoResponse == [status |-> "none", classes |-> <<>>, probabilities |-> <<>>]
NoCall == [valid |-> FALSE, images |-> <<>>, response |-> NoResponse]

\* A run that an op ended by raising returns no predictions.
Failed(kind) == [status |-> kind, classes |-> <<>>, probabilities |-> <<>>]

InitServing ==
    /\ weights \in Checkpoints
    /\ pc = "idle"
    /\ images = <<>>
    /\ iters = {}
    /\ ta = <<>>
    /\ processed_images = NoTensor
    /\ logits = <<>>
    /\ invocations = 0
    /\ response = NoResponse
    /\ prev = NoCall

\* The permutations of 1..n.
Perms(n) == {p \in [1..n -> 1..n] : \A i, j \in 1..n : p[i] = p[j] => i = j}

Permute(s, p) == [i \in DOMAIN p |-> s[p[i]]]

\* The serving runtime starts a run of the exported graph on a request.
StartRun(imgs) ==
    /\ images' = imgs
    /\ pc' = "map_fn"
    /\ iters' = {}
    /\ ta' = <<>>
    /\ processed_images' = NoTensor
    /\ logits' = <<>>
    /\ invocations' = 0
    /\ response' = NoResponse
    /\ UNCHANGED <<weights, prev>>
    /\ UNCHANGED exporting
    /\ UNCHANGED preprocessing

\* A client's first call: any request.
Submit(imgs) ==
    /\ pc = "idle"
    /\ ~prev.valid
    /\ StartRun(imgs)

\* A client's second call: the images of its first call in another order
\* (or, with the identity, the same request again).
Resubmit(p) ==
    /\ pc = "idle"
    /\ prev.valid
    /\ StartRun(Permute(prev.images, p))

\* A client's second call: one image of its first call, alone.
ResubmitOne(i) ==
    /\ pc = "idle"
    /\ prev.valid
    /\ StartRun(<<prev.images[i]>>)

\* The error is noted and the step that raised is left to run again.
Abort_retry(kind) ==
    /\ pc' = pc
    /\ response' = Failed(kind)

\* The run ends with an error: no predictions are returned.
Abort(kind) ==
    /\ pc' = "done"
    /\ response' = Failed(kind)

\* One iteration of tf.map_fn(preprocess_image, images, dtype=tf.float32).
\* The iterations are independent and run in any order; each writes its result
\* at its own index.
MapFnIteration(i) ==
    /\ pc = "map_fn"
    /\ i \in (DOMAIN images) \ iters
    /\ LET image == preprocess_image(images[i])
       IN  IF image.status # "OK"
             THEN /\ Abort(image.status)
                  /\ UNCHANGED <<iters, ta>>
             ELSE /\ iters' = iters \cup {i}
                  /\ ta' = TensorArrayWrite(ta, i, image)
                  /\ UNCHANGED <<pc, response>>
    /\ UNCHANGED <<weights, images, processed_images, logits, invocations, prev>>
    /\ UNCHANGED exporting
    /\ UNCHANGED preprocessing

\* tf.map_fn returns the stacked TensorArray, and
\* processed_images = tf.reshape(tf.stack(processed_images), [-1, 224, 224, 3]).
StackAndReshape ==
    /\ pc = "map_fn"
    /\ iters = DOMAIN images
    /\ LET stacked  == TensorArrayStack(ta, Len(images))
           reshaped == IF stacked.status = "OK" THEN Reshape(stacked) ELSE stacked
       IN  IF reshaped.status # "OK"
             THEN /\ Abort(reshaped.status)
                  /\ UNCHANGED processed_images
             ELSE /\ processed_images' = reshaped
                  /\ pc' = "network"
                  /\ UNCHANGED response
    /\ UNCHANGED <<weights, images, iters, ta, logits, invocations, prev>>
    /\ UNCHANGED exporting
    /\ UNCHANGED preprocessing

\* The network called on each image of the batch in turn.
InvokeNetwork_per_image ==
    /\ pc = "network"
    /\ logits' = network(weights, processed_images.values, is_training("PREDICT"))
    /\ invocations' = invocations + Len(processed_images.values)
    /\ pc' = "top_k"
    /\ UNCHANGED <<weights, images, iters, ta, processed_images, response, prev>>
    /\ UNCHANGED exporting
    /\ UNCHANGED preprocessing

\* logits = network(inputs=processed_images, is_training=(mode == TRAIN)),
\* in the mode the servable is exported in.
InvokeNetwork ==
    /\ pc = "network"
    /\ logits' = network(weights, processed_images.values, is_training("PREDICT"))
    /\ invocations' = invocations + 1
    /\ pc' = "top_k"
    /\ UNCHANGED <<weights, images, iters, ta, processed_images, response, prev>>
    /\ UNCHANGED exporting
    /\ UNCHANGED preprocessing

\* The network raises while it is evaluated: the session run ends there, with
\* no logits.
NetworkFault ==
    /\ pc = "network"
    /\ invocations' = invocations + 1
    /\ Abort("ModelInferenceError")
    /\ UNCHANGED <<weights, images, iters, ta, processed_images, logits, prev>>
    /\ UNCHANGED exporting
    /\ UNCHANGED preprocessing

\* top_k, softmax and the predictions dictionary, returned under 'predict'.
Predict ==
    /\ pc = "top_k"
    /\ LET out == predictions(logits)
       IN  response' = [status |-> "OK", classes |-> out.classes,
                        probabilities |-> out.probabilities]
    /\ pc' = "done"
    /\ UNCHANGED <<weights, images, iters, ta, processed_images, logits,
                   invocations, prev>>
    /\ UNCHANGED exporting
    /\ UNCHANGED preprocessing

\* The response goes back to the client, which remembers its first call.
Return ==
    /\ pc = "done"
    /\ pc' = "idle"
    /\ prev' = IF prev.valid THEN NoCall
               ELSE [valid |-> TRUE, images |-> images, response |-> response]
    /\ images' = <<>>
    /\ iters' = {}
    /\ ta' = <<>>
    /\ processed_images' = NoTensor
    /\ logits' = <<>>
    /\ invocations' = 0
    /\ response' = NoResponse
    /\ UNCHANGED weights
    /\ UNCHANGED exporting
    /\ UNCHANGED preprocessing

\* ------------------------------------------------------------- export

\* serving_input_receiver_fn and `images` of the Keras notebook:
\* tf.placeholder(dtype=tf.string, shape=[None]) under the name 'images'.
serving_input_receiver_fn == {[name |-> "images", dtype |-> "string", shape |-> <<"None">>]}

KerasInputs == {[name |-> "images", dtype |-> "string", shape |-> <<"None">>]}

\* predict_signature_def / PredictOutput.as_signature_def: the inputs, the
\* names of the outputs, and the predict method.
predict_signature_def(inputs, outputs) ==
    [inputs |-> inputs, outputs |-> outputs, method_name |-> "tensorflow/serving/predict"]

\* create_servable_estimator_spec: export_outputs holds the predictions under
\* 'predict'; EstimatorSpec also files a single entry under the default key.
create_servable_estimator_spec(prediction_keys) ==
    [export_outputs |-> ("predict" :> prediction_keys) @@ ("serving_default" :> prediction_keys)]

\* The signatures export_savedmodel writes: one per entry of export_outputs,
\* over the receiver's inputs. The outputs are the keys of resnet_model_fn's
\* predictions dictionary.
EstimatorSignatureDefMap ==
    LET spec == create_servable_estimator_spec(DOMAIN predictions(<<>>))
    IN  [key \in DOMAIN spec.export_outputs |->
            predict_signature_def(serving_input_receiver_fn, spec.export_outputs[key])]

\* A Keras signature filed under the default key alone.
KerasSignatureDefMap_default_key ==
    "serving_default" :> predict_signature_def(KerasInputs, {"classes", "probabilities"})

\* signature_def_map={'predict': signature} of the Keras notebook.
KerasSignatureDefMap ==
    "predict" :> predict_signature_def(KerasInputs, {"classes", "probabilities"})

EstimatorDir(t) == <<"resnet_servable", t>>
KerasDir(v) == <<"keras_resnet_servable", v>>

EmptyDir == [complete |-> FALSE, signature_def_map |-> <<>>, serial |-> 0]
Bundle(signatures, n) == [complete |-> TRUE, signature_def_map |-> signatures, serial |-> n]

NoBuilder == [export_dir |-> <<>>, saved |-> FALSE]
NoAttempt == [dir |-> <<>>, existed |-> FALSE, outcome |-> "none"]

PutDir(tree, dir, contents) ==
    [d \in (DOMAIN tree) \cup {dir} |-> IF d = dir THEN contents ELSE tree[d]]

InitExport ==
    /\ now = 0
    /\ fs = <<>>
    /\ builder = NoBuilder
    /\ exports = 0
    /\ attempt = NoAttempt

\* A builder that takes over a directory that exists.
SavedModelBuilder_overwrite(tree, export_dir) ==
    [raised |-> FALSE, tree |-> PutDir(tree, export_dir, EmptyDir)]

\* saved_model_builder.SavedModelBuilder(export_dir): raises when the
\* directory exists, and creates it otherwise.
SavedModelBuilder(tree, export_dir) ==
    IF export_dir \in DOMAIN tree
      THEN [raised |-> TRUE, tree |-> tree]
      ELSE [raised |-> FALSE, tree |-> PutDir(tree, export_dir, EmptyDir)]

\* The Keras notebook's cell that creates the builder, run with VERSION_NUMBER
\* set to v.
KerasCreateBuilder(v) ==
    /\ LET SERVING_DIR == KerasDir(v)
           made == SavedModelBuilder(fs, SERVING_DIR)
       IN  /\ attempt' = [dir |-> SERVING_DIR, existed |-> SERVING_DIR \in DOMAIN fs,
                          outcome |-> IF made.raised THEN "ConfigurationError" ELSE "started"]
           /\ fs' = made.tree
           /\ builder' = IF made.raised THEN builder
                         ELSE [export_dir |-> SERVING_DIR, saved |-> FALSE]
    /\ UNCHANGED <<now, exports>>
    /\ UNCHANGED serving
    /\ UNCHANGED preprocessing

\* builder.add_meta_graph_and_variables(...) and builder.save(), run with the
\* builder the notebook holds: a builder saves its variables once, into the
\* directory it created, and raises when asked again.
KerasSave ==
    /\ builder # NoBuilder
    /\ IF builder.saved
         THEN /\ attempt' = [dir |-> builder.export_dir, existed |-> TRUE,
                             outcome |-> "ConfigurationError"]
              /\ UNCHANGED <<fs, exports, builder>>
         ELSE /\ fs' = PutDir(fs, builder.export_dir,
                              Bundle(KerasSignatureDefMap, exports + 1))
              /\ exports' = exports + 1
              /\ builder' = [builder EXCEPT !.saved = TRUE]
              /\ attempt' = NoAttempt
    /\ UNCHANGED now
    /\ UNCHANGED serving
    /\ UNCHANGED preprocessing

\* get_timestamped_export_dir: the directory named by the clock's second, or,
\* while that one exists, by the next second, one second later.
TimestampedExportDir(tree, t) ==
    Min({u \in t..(t + Cardinality(DOMAIN tree)) : EstimatorDir(u) \notin DOMAIN tree})

\* estimator.export_savedmodel(export_dir_base=SERVING_DIR, ...).
EstimatorExport ==
    /\ LET t == TimestampedExportDir(fs, now)
       IN  /\ t <= MaxTime
           /\ now' = t
           /\ fs' = PutDir(fs, EstimatorDir(t), Bundle(EstimatorSignatureDefMap, exports + 1))
           /\ attempt' = [dir |-> EstimatorDir(t), existed |-> EstimatorDir(t) \in DOMAIN fs,
                          outcome |-> "OK"]
    /\ exports' = exports + 1
    /\ UNCHANGED builder
    /\ UNCHANGED serving
    /\ UNCHANGED preprocessing

\* Time passes.
Tick ==
    /\ now < MaxTime
    /\ now' = now + 1
    /\ attempt' = NoAttempt
    /\ UNCHANGED <<fs, builder, exports>>
    /\ UNCHANGED serving
    /\ UNCHANGED preprocessing

\* ------------------------------------------------------ preprocessing

NotRun == [notebook |-> "none", status |-> "none", shape |-> <<>>, pixel |-> <<>>]

\* No byte string is in a helper's hands.
InitPreprocessing ==
    /\ encoded_image = NotJpeg
    /\ normalized = NotRun

\* The byte strings the helpers are tried on: every 8-bit colour, in the size
\* the model expects, in grayscale and in a small size; and bytes that are no
\* JPEG stream.
EncodedImages ==
    { JpegImage(_DEFAULT_IMAGE_SIZE, _DEFAULT_IMAGE_SIZE, _NUM_CHANNELS, v) : v \in 0..255 }
      \cup { JpegImage(_DEFAULT_IMAGE_SIZE, _DEFAULT_IMAGE_SIZE, 1, v) : v \in 0..255 }
      \cup { JpegImage(100, 100, _NUM_CHANNELS, v) : v \in 0..255 }
      \cup { NotJpeg }

\* A byte string is handed to the helpers.
InitHelpers ==
    /\ encoded_image \in EncodedImages
    /\ normalized = NotRun

\* preprocess_image of the Estimator notebook is applied. The three channels
\* of a pixel are kept as fractions <<numerator, denominator>>.
EstimatorPreprocess ==
    /\ normalized = NotRun
    /\ LET image == preprocess_image(encoded_image)
       IN  normalized' =
             [notebook |-> "estimator", status |-> image.status, shape |-> image.shape,
              pixel |-> IF image.status = "OK"
                          THEN [c \in 1..3 |-> <<image.value, 510>>] ELSE <<>>]
    /\ UNCHANGED encoded_image
    /\ UNCHANGED <<serving, exporting>>

\* preprocess_image of the Keras notebook is applied.
KerasPreprocess ==
    /\ normalized = NotRun
    /\ LET image == keras_preprocess_image(encoded_image)
       IN  normalized' =
             [notebook |-> "keras", status |-> image.status, shape |-> image.shape,
              pixel |-> IF image.status = "OK"
                          THEN [c \in 1..3 |-> <<image.value[c], 1000>>] ELSE <<>>]
    /\ UNCHANGED encoded_image
    /\ UNCHANGED <<serving, exporting>>

\* ------------------------------------------------------ specifications

Init == InitServing /\ InitExport /\ InitPreprocessing

vars == <<serving, exporting, preprocessing>>

Next ==
    \/ \E imgs \in Requests : Submit(imgs)
    \/ \E p \in Perms(Len(prev.images)) : Resubmit(p)
    \/ \E i \in DOMAIN prev.images : ResubmitOne(i)
    \/ \E i \in DOMAIN images : MapFnIteration(i)
    \/ StackAndReshape
    \/ InvokeNetwork
    \/ Predict
    \/ Return

\* The serving runtime answering the requests of one client.
Spec == Init /\ [][Next]_vars

NextExport ==
    \/ \E v \in VERSION_NUMBER..MaxVersion : KerasCreateBuilder(v)
    \/ KerasSave
    \/ EstimatorExport
    \/ Tick

\* The two notebooks being run, and run again, over time.
SpecExport == Init /\ [][NextExport]_vars

\* Nothing has been exported yet, and no request has been made yet.
NothingExported == exporting = <<0, <<>>, NoBuilder, 0, NoAttempt>>
NothingServed == pc = "idle" /\ ~prev.valid

NextFaults ==
    \/ NothingExported /\ Next
    \/ NothingExported /\ NetworkFault
    \/ NothingServed /\ NextExport

\* The notebooks being run, or a client being answered by a network that may
\* raise. Export steps read and write the export state alone and serving steps
\* the serving state alone, so a behaviour in which both move is an
\* interleaving of two behaviours of this specification.
SpecFaults == Init /\ [][NextFaults]_vars

NextPreprocess ==
    \/ EstimatorPreprocess
    \/ KerasPreprocess

InitPreprocess == InitServing /\ InitExport /\ InitHelpers

\* The preprocess_image helper of either notebook applied to one byte string.
SpecPreprocess == InitPreprocess /\ [][NextPreprocess]_vars

\* ------------------------------------------------------------- properties

\* The run of the current request has ended.
Done == pc = "done"

\* The run of the current request has returned predictions.
Answered == pc = "done" /\ response.status = "OK"

\* The client's second call has ended.
SecondDone == pc = "done" /\ prev.valid

\* An image as the request format demands it: a JPEG stream of 224 x 224 x 3.
ValidImage(img) ==
    img.jpeg /\ img.height = 224 /\ img.width = 224 /\ img.channels = 3

\* Class a comes before class b in a row's top-k order: a larger score, or
\* the same score and a lower index.
Precedes(row, a, b) == row[a] > row[b] \/ (row[a] = row[b] /\ a < b)

\* p >= q, for probabilities <<numerator, denominator>>.
AtLeast(p, q) == p[1] * q[2] >= q[1] * p[2]

\* C1: a request of N >= 0 valid JPEG images (224 x 224 x 3) returns
\* `classes` and `probabilities` of length exactly N, each inner sequence of
\* length exactly 5. (Violated: the empty request returns no response.)
C1_ResponseShape ==
    (Done /\ \A i \in DOMAIN images : ValidImage(images[i]))
    => /\ response.status = "OK"
       /\ Len(response.classes) = Len(images)
       /\ Len(response.probabilities) = Len(images)
       /\ \A r \in DOMAIN response.classes : Len(response.classes[r]) = 5
       /\ \A r \in DOMAIN response.probabilities : Len(response.probabilities[r]) = 5

\* What does hold of C1's statement: the same, for N >= 1.
C1_NonEmptyBatches ==
    (Done /\ images # <<>> /\ \A i \in DOMAIN images : ValidImage(images[i]))
    => /\ response.status = "OK"
       /\ Len(response.classes) = Len(images)
       /\ Len(response.probabilities) = Len(images)
       /\ \A r \in DOMAIN response.classes : Len(response.classes[r]) = 5
       /\ \A r \in DOMAIN response.probabilities : Len(response.probabilities[r]) = 5

\* C2: for every row of the score matrix the returned classes are the column
\* indices of the 5 largest scores, largest first, and of two equal scores the
\* lower column index comes first: each returned class precedes the next one,
\* and the last one precedes every class that was not returned.
C2_TopKLowestIndexFirst ==
    Answered =>
      \A r \in DOMAIN logits :
        LET row == logits[r]
            cls == response.classes[r]
        IN  /\ Len(cls) = 5
            /\ \A j \in 1..4 : Precedes(row, cls[j], cls[j + 1])
            /\ \A c \in (DOMAIN row) \ Range(cls) : Precedes(row, cls[5], c)

\* C2's case: a row with equal scores among the returned classes and a class
\* left out whose score equals the last returned one.
C2_Witness ==
    /\ Answered
    /\ \E r \in DOMAIN logits :
         LET row == logits[r]
             cls == response.classes[r]
         IN  /\ \E j \in 1..4 : row[cls[j]] = row[cls[j + 1]]
             /\ \E c \in (DOMAIN row) \ Range(cls) : row[c] = row[cls[5]]

\* C3: the probabilities of an image are the softmax over its 5 selected
\* logits alone: probability j is exp(logit of class j) over the sum of the
\* exps of the 5 selected logits, so the 5 probabilities sum to 1.
C3_SoftmaxOverTopK ==
    Answered =>
      \A r \in DOMAIN logits :
        LET row == logits[r]
            cls == response.classes[r]
            pr  == response.probabilities[r]
            sum == SumSeq([i \in 1..5 |-> Pow2(row[cls[i]])])
        IN  /\ \A j \in 1..5 : pr[j][2] = pr[1][2]
            /\ SumSeq([j \in 1..5 |-> pr[j][1]]) = pr[1][2]
            /\ \A j \in 1..5 : pr[j][1] * sum = pr[j][2] * Pow2(row[cls[j]])

\* C3's case: a row whose selected logits differ, and whose classes left out
\* would weigh in a softmax over the whole row.
C3_Witness ==
    /\ Answered
    /\ \E r \in DOMAIN logits :
         /\ response.probabilities[r][1] # response.probabilities[r][5]
         /\ Cardinality(DOMAIN logits[r]) = 1001

\* C4: the 5 probabilities of an image are in non-increasing order, and
\* probability j belongs to class j: any two of them are in the ratio of the
\* exps of the scores of the classes at their positions.
C4_SortedAndParallel ==
    Answered =>
      \A r \in DOMAIN logits :
        LET row == logits[r]
            cls == response.classes[r]
            pr  == response.probabilities[r]
        IN  /\ Len(pr) = Len(cls)
            /\ \A j \in 1..4 : AtLeast(pr[j], pr[j + 1])
            /\ \A i, j \in 1..5 :
                 pr[i][1] * pr[j][2] * Pow2(row[cls[j]])
                   = pr[j][1] * pr[i][2] * Pow2(row[cls[i]])

\* C4's case: a row whose 5 probabilities strictly decrease.
C4_Witness ==
    /\ Answered
    /\ \E r \in DOMAIN logits :
         \A j \in 1..4 : ~AtLeast(response.probabilities[r][j + 1],
                                  response.probabilities[r][j])

\* C5: the 5 class ids of every image are pairwise distinct integers in
\* [0, 1000].
C5_DistinctClassIds ==
    Answered =>
      \A r \in DOMAIN response.classes :
        LET cls == response.classes[r]
        IN  /\ \A j \in 1..5 : cls[j] \in 0..1000
            /\ \A i, j \in 1..5 : i # j => cls[i] # cls[j]

\* C5's case: a batch of two images, one with class 1000 and class 0 among
\* its 5.
C5_Witness ==
    /\ Answered
    /\ Len(response.classes) = 2
    /\ \E r \in DOMAIN response.classes :
         {0, 1000} \subseteq Range(response.classes[r])

\* The second call's response is the first call's, rearranged by p.
Rearranged(p) ==
    /\ response.status = prev.response.status
    /\ response.status = "OK" =>
         /\ Len(prev.response.classes) = Len(prev.images)
         /\ response.classes = Permute(prev.response.classes, p)
         /\ response.probabilities = Permute(prev.response.probabilities, p)

\* The second call, of image i of the first call alone, returns what the
\* first call returned for image i.
SamePrediction(i) ==
    (prev.response.status = "OK" /\ response.status = "OK") =>
         /\ Len(prev.response.classes) = Len(prev.images)
         /\ response.classes = <<prev.response.classes[i]>>
         /\ response.probabilities = <<prev.response.probabilities[i]>>

OrderPreserved ==
    /\ \A p \in Perms(Len(prev.images)) :
         images = Permute(prev.images, p) => Rearranged(p)
    /\ \A i \in DOMAIN prev.images :
         images = <<prev.images[i]>> => SamePrediction(i)

\* C6: output i is the prediction of input i: a second call with the images
\* of the first in another order returns the first call's predictions in that
\* order, and a second call with one image of the first returns that image's
\* prediction. (Violated: an image that is not 224 x 224 yields several
\* predictions.)
C6_OrderPreserved == SecondDone => OrderPreserved

\* What does hold of C6's statement: the same, when every image of the first
\* call is a JPEG stream of 224 x 224 pixels.
C6_SizedImages ==
    (SecondDone /\ \A i \in DOMAIN prev.images :
        /\ prev.images[i].jpeg
        /\ prev.images[i].height = 224
        /\ prev.images[i].width = 224)
    => OrderPreserved

\* C7: a batch with an image that is no JPEG stream, or is not 3-channel
\* 224 x 224, fails as a whole with DecodeError and returns no predictions.
\* (Violated: a grayscale image and an image of 448 x 224 are predicted.)
C7_BadImageFailsBatch ==
    (Done /\ \E i \in DOMAIN images : ~ValidImage(images[i]))
    => response = Failed("DecodeError")

\* What does hold of C7's statement: the same, for an image that is no JPEG
\* stream.
C7_NotJpegFailsBatch ==
    (Done /\ \E i \in DOMAIN images : ~images[i].jpeg)
    => response = Failed("DecodeError")

\* C9: a second call with the same images, under the same weights, returns
\* what the first call returned.
C9_SameRequestSameResponse ==
    (SecondDone /\ images = prev.images) => response = prev.response

\* C9's case: a batch of two different images is answered twice.
C9_Witness ==
    /\ SecondDone
    /\ images = prev.images
    /\ Len(images) = 2
    /\ images[1] # images[2]
    /\ response.status = "OK"

\* A servable directory that holds a saved bundle.
Exported(d) == d \in DOMAIN fs /\ fs[d].complete

\* C8: a directory that holds a bundle keeps it, step after step; and a step
\* that starts an export to a directory that exists ends with
\* ConfigurationError and leaves the directories as they were.
C8_NoOverwrite ==
    [][ /\ \A d \in DOMAIN fs : fs[d].complete => (d \in DOMAIN fs' /\ fs'[d] = fs[d])
        /\ attempt'.existed => (attempt'.outcome = "ConfigurationError" /\ fs' = fs)
      ]_vars

\* C8's case: after other exports, an export to a directory that holds a
\* bundle has been refused.
C8_Witness ==
    /\ attempt.existed
    /\ attempt.outcome = "ConfigurationError"
    /\ Exported(attempt.dir)
    /\ Cardinality(DOMAIN fs) >= 2

\* C10: a bundle of the Keras notebook and a bundle of the Estimator notebook
\* declare the same signature under 'predict': one input, `images`, a string
\* tensor of any length, and the outputs `classes` and `probabilities`.
C10_SameSignature ==
    \A d, e \in DOMAIN fs :
      (Exported(d) /\ Exported(e) /\ d[1] = "resnet_servable"
         /\ e[1] = "keras_resnet_servable") =>
        LET est   == fs[d].signature_def_map
            keras == fs[e].signature_def_map
        IN  /\ "predict" \in DOMAIN est
            /\ "predict" \in DOMAIN keras
            /\ keras["predict"] = est["predict"]
            /\ keras["predict"].inputs =
                 {[name |-> "images", dtype |-> "string", shape |-> <<"None">>]}
            /\ keras["predict"].outputs = {"classes", "probabilities"}

\* C10's case: both notebooks have exported a bundle.
C10_Witness ==
    \E d, e \in DOMAIN fs :
      /\ Exported(d) /\ d[1] = "resnet_servable"
      /\ Exported(e) /\ e[1] = "keras_resnet_servable"

\* The helper of notebook nb returned, for a pixel channel value v of the
\* decoded image, v / 255 - 0.5, which lies in [-0.5, 0.5], in a tensor of the
\* decoded image's shape.
CenteredUnit(nb) ==
    (normalized.notebook = nb /\ normalized.status = "OK") =>
      /\ normalized.shape = <<encoded_image.height, encoded_image.width, 3>>
      /\ \A c \in 1..3 :
            LET x == normalized.pixel[c]
            IN  /\ x[1] * 510 = (2 * encoded_image.value - 255) * x[2]
                /\ -x[2] <= 2 * x[1]
                /\ 2 * x[1] <= x[2]

\* C11: for every decoded 8-bit pixel channel value, preprocess_image returns
\* that value divided by 255.0 minus 0.5, an element of [-0.5, 0.5], in a
\* tensor of unchanged shape; in the Estimator notebook and in the Keras one.
C11_CenteredUnit == CenteredUnit("estimator") /\ CenteredUnit("keras")

\* The Estimator notebook's helper does so.
C11_EstimatorCenteredUnit == CenteredUnit("estimator")

\* C12: the network is invoked once per batch request, not once per image, and
\* only after every image of the batch has been decoded and normalized: no
\* request sees a second invocation, a request whose run got past the network
\* has seen exactly one, and when the network has been invoked every iteration of
\* map_fn has run and left its image in the batch the network was given.
C12_OneInvocationAfterPreprocessing ==
    /\ invocations <= 1
    /\ pc \in {"top_k", "done"} /\ response.status \in {"none", "OK"} => invocations = 1
    /\ invocations >= 1 =>
          /\ iters = DOMAIN images
          /\ \A i \in DOMAIN images :
                /\ preprocess_image(images[i]).status = "OK"
                /\ ta[i] = preprocess_image(images[i])
          /\ processed_images.status = "OK"

\* C12's case: a batch of several images has been answered.
C12_Witness ==
    /\ Answered
    /\ Len(images) >= 2
    /\ invocations = 1

\* The images of a request preprocessed one after the other, first to last.
RECURSIVE SequentialMap(_)
SequentialMap(imgs) ==
    IF imgs = <<>> THEN <<>>
    ELSE <<preprocess_image(Head(imgs))>> \o SequentialMap(Tail(imgs))

\* C13: in whatever order the iterations of map_fn run and complete, each
\* result is filed at the index of its image, untouched by the other
\* iterations, and the Image Batch given to the network is the one that
\* preprocessing the images one after the other gives.
C13_AnyOrderSameBatch ==
    /\ \A i \in iters : ta[i] = SequentialMap(images)[i]
    /\ processed_images.status = "OK" =>
          /\ ta = SequentialMap(images)
          /\ processed_images = Reshape(TensorArrayStack(SequentialMap(images), Len(images)))

\* C13's case: the second image of a batch of two different images completed
\* before the first.
C13_Witness ==
    /\ pc = "map_fn"
    /\ Len(images) = 2
    /\ images[1] # images[2]
    /\ iters = {2}

\* A run that ended with an error.
Erred(r) == r.status \notin {"none", "OK"}

\* C14: an error is surfaced to the caller when it first occurs. The step in
\* which an op of the run raises ends the run, with that error and no
\* predictions, and the network is not called again; the only step after it
\* hands that response to the client. An export that raises leaves the
\* directories, the builder and the count of bundles as they were.
C14_SurfacedAtOnce ==
    [][ /\ (Erred(response') /\ ~Erred(response)) =>
              /\ pc' = "done"
              /\ response'.classes = <<>>
              /\ response'.probabilities = <<>>
              /\ invocations' <= 1
        /\ Erred(response) =>
              /\ pc' = "idle"
              /\ prev'.valid => prev'.response = response
        /\ attempt'.outcome = "ConfigurationError" =>
              /\ fs' = fs
              /\ exports' = exports
              /\ builder' = builder
      ]_vars

\* C14's case: the network raised on a batch of two images, and the run ended
\* with that error.
C14_Witness ==
    /\ pc = "done"
    /\ Len(images) = 2
    /\ response = Failed("ModelInferenceError")
    /\ invocations = 1

====
